---- MODULE Spec2Model ----
(***************************************************************************)
(* Model of the bulk task update (pkg/models/bulk_task.go), of the generic *)
(* read-all web handler (handler.ReadAllWeb) and of the teams              *)
(* (pkg/models/teams.go) of the Vikunja API.                               *)
(*                                                                         *)
(* Spec     : one bulk update request: CanUpdate, then the Update loop.    *)
(* SpecWeb  : one ReadAllWeb request.                                      *)
(* SpecTeam : a sequence of team requests: Create, grants, Delete, ReadAll.*)
(***************************************************************************)
EXTENDS Integers, Sequences, FiniteSets, TLC

VARIABLES
    tasks,       \* the "tasks" table: task id -> stored row
    assignees,   \* the task assignee relation: task id -> set of user ids
    bt,          \* the BulkTask struct: IDs, Tasks (in-memory targets), Task (the payload)
    pc,          \* position of the bulk request
    idx,         \* index into bt.Tasks of the next target of the Update loop
    ok,          \* first result of CanUpdate
    err,         \* error result of CanUpdate / Update
    asked,       \* list ids List.CanWrite was consulted about
    submitted,   \* the payload as it was bound from the request (never changes)
    tasks0,      \* the tasks table when the request arrived (never changes)
    writes,      \* the row updates issued so far: <<[id, row]>>
    web,         \* the ReadAllWeb request and its response
    team         \* the team tables, and the team request in progress or last answered

vars == <<tasks, assignees, bt, pc, idx, ok, err, asked, submitted, tasks0, writes, web,
          team>>

bulkVars == <<tasks, assignees, bt, pc, idx, ok, err, asked, submitted, tasks0, writes>>

(***************************************************************************)
(* Bounds                                                                  *)
(***************************************************************************)
NumTasks == 2
NumLists == 2
\* The number of team ids.
MaxTeams == 2

TaskIDs == 1..NumTasks
Lists == 1..NumLists
Users == {1}

\* Values of the date and interval columns (seconds); 0 is the zero value.
RepeatIntervals == {0, 3}
PayloadTitles == {"", "new"}

(***************************************************************************)
(* Errors                                                                  *)
(***************************************************************************)
NoError == [type |-> "nil"]
ErrBulkTasksNeedAtLeastOne == [type |-> "ErrBulkTasksNeedAtLeastOne"]
ErrBulkTasksMustBeInSameList(shouldBe, is) ==
    [type |-> "ErrBulkTasksMustBeInSameList", ShouldBeID |-> shouldBe, IsID |-> is]
ErrAssignees == [type |-> "ErrUpdateTaskAssignees"]
ErrUpdate == [type |-> "ErrUpdate"]

(***************************************************************************)
(* Task rows and the in-memory Task struct                                 *)
(***************************************************************************)
\* The stored row of a task as loaded into memory (assignees are not a column).
LoadTask(row) ==
    [ID |-> row.ID, ListID |-> row.ListID, Title |-> row.Title, Done |-> row.Done,
     DueDate |-> row.DueDate, RepeatAfter |-> row.RepeatAfter, Assignees |-> {}]

\* The principal's rights: the lists it may write.
WritableLists == {1}

CanWrite(l) == l \in WritableLists

\* s.In("id", bt.IDs).Find(&bt.Tasks): the stored tasks with one of the ids, in id order.
RECURSIVE TasksFrom(_, _, _)
TasksFrom(table, ids, n) ==
    IF n > NumTasks THEN <<>>
    ELSE (IF n \in ids THEN <<LoadTask(table[n])>> ELSE <<>>) \o TasksFrom(table, ids, n + 1)

GetTasksByIDs(table, ids) == TasksFrom(table, ids, 1)

\* The first target whose ListID differs from the first target's, 0 when there is none.
RECURSIVE FirstDiffering(_, _, _)
FirstDiffering(ts, firstListID, n) ==
    IF n > Len(ts) THEN 0
    ELSE IF ts[n].ListID # firstListID THEN n
    ELSE FirstDiffering(ts, firstListID, n + 1)

\* Faulty variant: the two list ids of the error are swapped.
checkIfTasksAreOnTheSameList_swapped(ts) ==
    IF Len(ts) = 0 THEN ErrBulkTasksNeedAtLeastOne
    ELSE LET firstListID == ts[1].ListID
             d == FirstDiffering(ts, firstListID, 1)
         IN  IF d # 0 THEN ErrBulkTasksMustBeInSameList(ts[d].ListID, firstListID)
             ELSE NoError

checkIfTasksAreOnTheSameList(ts) ==
    IF Len(ts) = 0 THEN ErrBulkTasksNeedAtLeastOne
    ELSE LET firstListID == ts[1].ListID
             d == FirstDiffering(ts, firstListID, 1)
         IN  IF d # 0 THEN ErrBulkTasksMustBeInSameList(firstListID, ts[d].ListID)
             ELSE NoError

\* When a repeating task is marked as done, all its dates are advanced by the
\* interval and it is set as undone; the result is handed to the merge through newTask.
updateDone(oldTask, newTask) ==
    IF oldTask.RepeatAfter > 0 /\ newTask.Done
    THEN [newTask EXCEPT !.DueDate = oldTask.DueDate + oldTask.RepeatAfter,
                         !.Done = FALSE]
    ELSE newTask

\* mergo.Merge(dst, src, mergo.WithOverride): every non-zero field of src overrides dst.
Merge(dst, src) ==
    [ID          |-> IF src.ID # 0 THEN src.ID ELSE dst.ID,
     ListID      |-> IF src.ListID # 0 THEN src.ListID ELSE dst.ListID,
     Title       |-> IF src.Title # "" THEN src.Title ELSE dst.Title,
     Done        |-> IF src.Done THEN src.Done ELSE dst.Done,
     DueDate     |-> IF src.DueDate # 0 THEN src.DueDate ELSE dst.DueDate,
     RepeatAfter |-> IF src.RepeatAfter # 0 THEN src.RepeatAfter ELSE dst.RepeatAfter,
     Assignees   |-> IF src.Assignees # {} THEN src.Assignees ELSE dst.Assignees]

\* The merge of Update, with the explicit check for a false Done.
MergeTask(oldtask, payload) ==
    LET m == Merge(oldtask, payload)
    IN  IF ~payload.Done THEN [m EXCEPT !.Done = FALSE] ELSE m

\* Faulty variant: the update is not restricted to the listed columns.
UpdateCols_allColumns(table, id, bean) ==
    IF id \in DOMAIN table
    THEN [table EXCEPT ![id] = [@ EXCEPT !.ListID = bean.ListID,
                                         !.Title = bean.Title,
                                         !.Done = bean.Done,
                                         !.DueDate = bean.DueDate,
                                         !.RepeatAfter = bean.RepeatAfter]]
    ELSE table

\* s.ID(id).Cols(...).Update(bean): the listed columns of the row with that id.
UpdateCols(table, id, bean) ==
    IF id \in DOMAIN table
    THEN [table EXCEPT ![id] = [@ EXCEPT !.Title = bean.Title,
                                         !.Done = bean.Done,
                                         !.DueDate = bean.DueDate,
                                         !.RepeatAfter = bean.RepeatAfter]]
    ELSE table

\* oldtask.updateTaskAssignees(s, bt.Assignees): the task's assignees become the given ones.
updateTaskAssignees(rel, id, new) ==
    IF id \in DOMAIN rel THEN [rel EXCEPT ![id] = new] ELSE rel

(***************************************************************************)
(* ReadAllWeb: request parameters and their conversions                    *)
(***************************************************************************)
MaxItemsPerPage == 3
MaxParamLen == 2
MaxResults == 2
MaxTotal == 4

\* Query parameters are strings: sequences of characters.
Alphabet == {"-", "+", "0", "1", "5", "x"}
Digits == {"0", "1", "5"}
ParamStrings == UNION {[1..n -> Alphabet] : n \in 0..MaxParamLen}

DigitValue(c) == CASE c = "0" -> 0 [] c = "1" -> 1 [] c = "5" -> 5 [] OTHER -> 0

RECURSIVE DecimalValue(_)
DecimalValue(ds) ==
    IF Len(ds) = 0 THEN 0
    ELSE 10 * DecimalValue(SubSeq(ds, 1, Len(ds) - 1)) + DigitValue(ds[Len(ds)])

\* strconv.Atoi: an optional sign followed by at least one decimal digit.
Atoi(str) ==
    LET signed == Len(str) > 0 /\ str[1] \in {"+", "-"}
        ds == IF signed THEN Tail(str) ELSE str
        valid == Len(ds) > 0 /\ \A k \in 1..Len(ds) : ds[k] \in Digits
        n == DecimalValue(ds)
    IN  [ok |-> valid,
         value |-> IF ~valid THEN 0 ELSE IF signed /\ str[1] = "-" THEN 0 - n ELSE n]

RECURSIVE NatDigits(_)
NatDigits(n) ==
    IF n < 10 THEN << CASE n = 0 -> "0" [] n = 1 -> "1" [] n = 2 -> "2" [] n = 3 -> "3"
                       [] n = 4 -> "4" [] n = 5 -> "5" [] n = 6 -> "6" [] n = 7 -> "7"
                       [] n = 8 -> "8" [] OTHER -> "9" >>
    ELSE NatDigits(n \div 10) \o NatDigits(n % 10)

\* strconv.FormatInt(n, 10) and strconv.FormatFloat(n, 'f', 0, 64) of a whole number.
FormatInt(n) == IF n < 0 THEN <<"-">> \o NatDigits(0 - n) ELSE NatDigits(n)

\* Faulty variant: page 0 is refused as well.
Pagination_refusesZero(page) ==
    LET p == IF page = <<>> THEN <<"1">> ELSE page
        a == Atoi(p)
    IN  IF ~a.ok THEN [message |-> "Bad page requested.", pageNumber |-> 0]
        ELSE IF a.value < 1
             THEN [message |-> "Page number cannot be negative.", pageNumber |-> a.value]
        ELSE [message |-> "", pageNumber |-> a.value]

\* The page parameter: "" means page 1; a negative page is refused.
Pagination(page) ==
    LET p == IF page = <<>> THEN <<"1">> ELSE page
        a == Atoi(p)
    IN  IF ~a.ok THEN [message |-> "Bad page requested.", pageNumber |-> 0]
        ELSE IF a.value < 0
             THEN [message |-> "Page number cannot be negative.", pageNumber |-> a.value]
        ELSE [message |-> "", pageNumber |-> a.value]

\* Faulty variant: a per_page above the configured maximum is passed on as it is.
ItemsPerPage_unclamped(perPage) ==
    LET a == IF perPage # <<>> THEN Atoi(perPage) ELSE [ok |-> TRUE, value |-> 0]
        d == IF a.value = 0 THEN MaxItemsPerPage ELSE a.value
    IN  IF ~a.ok THEN [message |-> "Bad per page amount requested.", perPageNumber |-> 0]
        ELSE IF d < 1
             THEN [message |-> "Per page amount cannot be negative.", perPageNumber |-> d]
        ELSE [message |-> "", perPageNumber |-> d]

\* The per_page parameter: the default when absent or 0, at most the configured maximum.
ItemsPerPage(perPage) ==
    LET a == IF perPage # <<>> THEN Atoi(perPage) ELSE [ok |-> TRUE, value |-> 0]
        d == IF a.value = 0 THEN MaxItemsPerPage ELSE a.value
    IN  IF ~a.ok THEN [message |-> "Bad per page amount requested.", perPageNumber |-> 0]
        ELSE IF d < 1
             THEN [message |-> "Per page amount cannot be negative.", perPageNumber |-> d]
        ELSE IF d > MaxItemsPerPage THEN [message |-> "", perPageNumber |-> MaxItemsPerPage]
        ELSE [message |-> "", perPageNumber |-> d]

\* Faulty variant: the integer quotient, which drops a last page that is not full.
Ceil_truncating(numberOfItems, perPageNumber) == numberOfItems \div perPageNumber

\* math.Ceil(float64(numberOfItems) / float64(perPageNumber)) of a count of items.
Ceil(numberOfItems, perPageNumber) == (numberOfItems + perPageNumber - 1) \div perPageNumber

\* The number of pages reported with the results.
NumberOfPages(numberOfItems, perPageNumber, pageNumber, resultCount) ==
    IF resultCount = 0 THEN 0
    ELSE IF pageNumber < 0 THEN 1
    ELSE Ceil(numberOfItems, perPageNumber)

\* A request that was not answered yet.
WebRequest(page, perPage) ==
    [pc |-> "request", page |-> page, per_page |-> perPage,
     authenticated |-> FALSE, bound |-> FALSE,
     status |-> 0, message |-> "", readAllCalled |-> FALSE,
     pageNumber |-> 0, perPageNumber |-> 0, resultCount |-> 0, numberOfItems |-> 0,
     totalPagesHeader |-> <<>>, resultCountHeader |-> <<>>]

\* No ReadAllWeb request is in flight while a bulk request is handled.
WebIdle == [WebRequest(<<>>, <<>>) EXCEPT !.pc = "idle"]

(***************************************************************************)
(* Teams: tables, principals and the statements of pkg/models/teams.go     *)
(***************************************************************************)
TeamIDs == 1..MaxTeams
TeamUsers == {1, 2}
Namespaces == {1}
SharedLists == {1}

\* The authenticated principal of a request: a user, or a link share, whose id is
\* taken from the link_sharing table and may coincide with a user id.
Principals == [kind : {"user"}, id : TeamUsers] \cup {[kind |-> "linkshare", id |-> 1]}
NoAuth == [kind |-> "none", id |-> 0]

\* Team names and search terms, as sequences of characters.
TeamNames == {<<>>, <<"o", "p", "s">>}
Searches == {<<>>, <<"p">>, <<"x">>}
Pages == {1, 2}
PerPages == {1, 2}

ErrNotAUser == [type |-> "ErrNotAUser"]
ErrTeamNameCannotBeEmpty == [type |-> "ErrTeamNameCannotBeEmpty"]
ErrGenericForbidden == [type |-> "ErrGenericForbidden"]
ErrDatabase == [type |-> "ErrDatabase"]

\* The tables teams, team_members, team_namespaces and team_list, as sets of rows.
EmptyDB == [teams |-> {}, members |-> {}, namespaces |-> {}, lists |-> {}]

\* No team request in flight, the tables being d. Of the request's fields, step is
\* the delete statement Team.Delete has reached and failed tells that it failed.
TeamIdle(d) ==
    [pc |-> "idle", op |-> "none", a |-> NoAuth, id |-> 0, name |-> <<>>, search |-> <<>>,
     step |-> 0, failed |-> FALSE, err |-> NoError, result |-> <<>>, resultCount |-> 0,
     numberOfTotalItems |-> 0, db |-> d, session |-> d, db0 |-> d]

\* user.GetFromAuth: the user behind the principal; a link share is no user.
GetFromAuth(a) ==
    IF a.kind = "user" THEN [doer |-> a.id, err |-> NoError]
    ELSE [doer |-> 0, err |-> ErrNotAUser]

\* s.Insert(t) with the creator set from the doer.
InsertTeam(d, id, name, doer) ==
    [d EXCEPT !.teams = @ \cup {[ID |-> id, Name |-> name, CreatedByID |-> doer]}]

\* Faulty variant: the creator is added as an ordinary member.
NewTeamMember_notAdmin(teamID, doer) == [TeamID |-> teamID, UserID |-> doer, Admin |-> FALSE]

\* tm := TeamMember{TeamID: t.ID, Username: doer.Username, Admin: true}
NewTeamMember(teamID, doer) == [TeamID |-> teamID, UserID |-> doer, Admin |-> TRUE]

\* TeamMember.Create: the member row is inserted.
TeamMemberCreate(d, tm) == [d EXCEPT !.members = @ \cup {tm}]

\* Faulty variant: the relations to lists are deleted by the wrong column.
DeleteStatement_keepsLists(d, step, id) ==
    CASE step = 1 -> [d EXCEPT !.teams = {t \in @ : t.ID # id}]
      [] step = 2 -> [d EXCEPT !.members = {m \in @ : m.TeamID # id}]
      [] step = 3 -> [d EXCEPT !.namespaces = {r \in @ : r.TeamID # id}]
      [] step = 4 -> [d EXCEPT !.lists = {r \in @ : r.ListID # id}]

\* The four delete statements of Team.Delete, in their order.
DeleteStatement(d, step, id) ==
    CASE step = 1 -> [d EXCEPT !.teams = {t \in @ : t.ID # id}]
      [] step = 2 -> [d EXCEPT !.members = {m \in @ : m.TeamID # id}]
      [] step = 3 -> [d EXCEPT !.namespaces = {r \in @ : r.TeamID # id}]
      [] step = 4 -> [d EXCEPT !.lists = {r \in @ : r.TeamID # id}]

DeleteSteps == 4

\* The session of a request ends: committed when the operation returned no error,
\* rolled back when it returned one.
EndSession(d0, session, e) == IF e = NoError THEN session ELSE d0

\* teams.name LIKE %search%
Like(name, search) ==
    \E i \in 0..(Len(name) - Len(search)) : SubSeq(name, i + 1, i + Len(search)) = search

\* Faulty variant: every team with a matching name, whoever its members are.
TeamsOf_everyTeam(d, userID, search) == {t \in d.teams : Like(t.Name, search)}

\* The teams joined with their members, for one user id and one search term.
TeamsOf(d, userID, search) ==
    {t \in d.teams : /\ \E m \in d.members : m.TeamID = t.ID /\ m.UserID = userID
                     /\ Like(t.Name, search)}

\* The rows of a set of teams, by ascending id.
RECURSIVE TeamRows(_)
TeamRows(S) ==
    IF S = {} THEN <<>>
    ELSE LET t == CHOOSE x \in S : \A y \in S : x.ID <= y.ID
         IN  <<t>> \o TeamRows(S \ {t})

\* getLimitFromPageIndex of a page from 1 on.
getLimitFromPageIndex(page, perPage) == [limit |-> perPage, start |-> perPage * (page - 1)]

\* query.Limit(limit, start), applied when limit > 0.
Limit(rows, limit, start) ==
    IF limit > 0
    THEN SubSeq(rows, start + 1, IF start + limit < Len(rows) THEN start + limit ELSE Len(rows))
    ELSE rows

(***************************************************************************)
(* Bulk update: initial states                                             *)
(***************************************************************************)
\* The tables a request may find: task n has id n and a due date of its own.
Rows ==
    {[n \in TaskIDs |-> [ID |-> n, ListID |-> l[n], Title |-> "old", Done |-> d[n],
                         DueDate |-> 10 * n, RepeatAfter |-> r[n]]] :
        l \in [TaskIDs -> Lists], d \in [TaskIDs -> BOOLEAN], r \in [TaskIDs -> RepeatIntervals]}

\* The payloads of a request: with or without an ID (that of a stored task), a
\* ListID, a title, Done and assignees; no dates and no repeat interval.
Payloads ==
    [ID : {0, NumTasks}, ListID : {0, NumLists}, Title : PayloadTitles, Done : BOOLEAN,
     DueDate : {0}, RepeatAfter : {0}, Assignees : SUBSET Users]

Init ==
    /\ tasks \in Rows
    /\ assignees = [n \in TaskIDs |-> {}]
    /\ \E ids \in SUBSET TaskIDs, p \in Payloads :
          /\ bt = [IDs |-> ids, Tasks |-> <<>>, Task |-> p]
          /\ submitted = p
    /\ pc = "bound"
    /\ idx = 1
    /\ ok = FALSE
    /\ err = NoError
    /\ asked = {}
    /\ tasks0 = tasks
    /\ writes = <<>>
    /\ web = WebIdle
    /\ team = TeamIdle(EmptyDB)

(***************************************************************************)
(* BulkTask.CanUpdate                                                      *)
(***************************************************************************)
\* Faulty variant: the rights are checked on the list named in the payload.
CanUpdate_payloadList ==
    /\ pc = "bound"
    /\ LET ts == GetTasksByIDs(tasks, bt.IDs)
           e == checkIfTasksAreOnTheSameList(ts)
       IN  /\ bt' = [bt EXCEPT !.Tasks = ts]
           /\ IF e # NoError
              THEN /\ ok' = FALSE
                   /\ err' = e
                   /\ asked' = asked
                   /\ pc' = "rejected"
              ELSE /\ ok' = CanWrite(bt.Task.ListID)
                   /\ err' = NoError
                   /\ asked' = asked \cup {bt.Task.ListID}
                   /\ pc' = IF CanWrite(bt.Task.ListID) THEN "authorized" ELSE "forbidden"
    /\ UNCHANGED <<tasks, assignees, idx, submitted, tasks0, writes, web, team>>

CanUpdate ==
    /\ pc = "bound"
    /\ LET ts == GetTasksByIDs(tasks, bt.IDs)
           e == checkIfTasksAreOnTheSameList(ts)
       IN  /\ bt' = [bt EXCEPT !.Tasks = ts]
           /\ IF e # NoError
              THEN /\ ok' = FALSE
                   /\ err' = e
                   /\ asked' = asked
                   /\ pc' = "rejected"
              ELSE /\ ok' = CanWrite(ts[1].ListID)
                   /\ err' = NoError
                   /\ asked' = asked \cup {ts[1].ListID}
                   /\ pc' = IF CanWrite(ts[1].ListID) THEN "authorized" ELSE "forbidden"
    /\ UNCHANGED <<tasks, assignees, idx, submitted, tasks0, writes, web, team>>

(***************************************************************************)
(* BulkTask.Update: one iteration of the loop over bt.Tasks                *)
(***************************************************************************)
InLoop == pc = "authorized" /\ idx <= Len(bt.Tasks)

\* updateTaskAssignees fails: Update returns the error.
UpdateAssigneesFail ==
    /\ InLoop
    /\ bt' = [bt EXCEPT !.Task = updateDone(bt.Tasks[idx], bt.Task)]
    /\ err' = ErrAssignees
    /\ pc' = "failed"
    /\ UNCHANGED <<tasks, assignees, idx, ok, asked, submitted, tasks0, writes, web, team>>

\* Faulty variant: a failing row update undoes the updates of the earlier targets.
UpdatePersistFail_rollback ==
    /\ InLoop
    /\ LET oldtask == bt.Tasks[idx]
           payload == updateDone(oldtask, bt.Task)
           merged == MergeTask(oldtask, payload)
       IN  /\ assignees' = updateTaskAssignees(assignees, oldtask.ID, payload.Assignees)
           /\ bt' = [bt EXCEPT !.Task = payload, !.Tasks[idx] = merged]
    /\ tasks' = tasks0
    /\ err' = ErrUpdate
    /\ pc' = "failed"
    /\ UNCHANGED <<idx, ok, asked, submitted, tasks0, writes, web, team>>

\* The row update fails: Update returns the error.
UpdatePersistFail ==
    /\ InLoop
    /\ LET oldtask == bt.Tasks[idx]
           payload == updateDone(oldtask, bt.Task)
           merged == MergeTask(oldtask, payload)
       IN  /\ assignees' = updateTaskAssignees(assignees, oldtask.ID, payload.Assignees)
           /\ bt' = [bt EXCEPT !.Task = payload, !.Tasks[idx] = merged]
    /\ err' = ErrUpdate
    /\ pc' = "failed"
    /\ UNCHANGED <<tasks, idx, ok, asked, submitted, tasks0, writes, web, team>>

\* The iteration succeeds; after the last target Update returns nil.
UpdateTarget ==
    /\ InLoop
    /\ LET oldtask == bt.Tasks[idx]
           payload == updateDone(oldtask, bt.Task)
           merged == MergeTask(oldtask, payload)
       IN  /\ assignees' = updateTaskAssignees(assignees, oldtask.ID, payload.Assignees)
           /\ bt' = [bt EXCEPT !.Task = payload, !.Tasks[idx] = merged]
           /\ tasks' = UpdateCols(tasks, merged.ID, merged)
           /\ writes' = Append(writes, [id |-> merged.ID, row |-> merged])
    /\ idx' = idx + 1
    /\ pc' = IF idx = Len(bt.Tasks) THEN "done" ELSE pc
    /\ UNCHANGED <<ok, err, asked, submitted, tasks0, web, team>>

Next ==
    \/ CanUpdate
    \/ UpdateAssigneesFail
    \/ UpdatePersistFail
    \/ UpdateTarget

Spec == Init /\ [][Next]_vars

(***************************************************************************)
(* Properties of the bulk update                                           *)
(***************************************************************************)
\* CanUpdate has returned.
CanUpdateReturned == pc \in {"rejected", "forbidden", "authorized", "failed", "done"}

\* The id of the k-th target in the order of bt.Tasks.
NthTarget(k) == CHOOSE n \in bt.IDs : Cardinality({m \in bt.IDs : m < n}) = k - 1

FirstListID == tasks0[NthTarget(1)].ListID

OtherListTargets == {n \in bt.IDs : tasks0[n].ListID # FirstListID}

FirstOtherListID ==
    tasks0[CHOOSE n \in OtherListTargets : \A m \in OtherListTargets : n <= m].ListID

SameList == bt.IDs # {} /\ OtherListTargets = {}

\* The number of targets whose iteration of the Update loop succeeded.
Processed == idx - 1

\* The last row update issued for row n, 0 when there was none.
LastWrite(n) ==
    IF \E k \in 1..Len(writes) : writes[k].id = n
    THEN CHOOSE k \in 1..Len(writes) :
            writes[k].id = n /\ \A j \in (k + 1)..Len(writes) : writes[j].id # n
    ELSE 0

\* C1: CanUpdate rejects the request, before any task is modified, unless the
\* resolved targets are non-empty and all in one list: no target gives
\* ErrBulkTasksNeedAtLeastOne, targets of two lists give ErrBulkTasksMustBeInSameList
\* with the first target's list id and the first differing list id.
C1_RejectsUnlessSameList ==
    CanUpdateReturned =>
        /\ (pc = "rejected") = ~SameList
        /\ bt.IDs = {} => ~ok /\ err = ErrBulkTasksNeedAtLeastOne
        /\ (bt.IDs # {} /\ ~SameList) =>
              ~ok /\ err = ErrBulkTasksMustBeInSameList(FirstListID, FirstOtherListID)
        /\ ~SameList => tasks = tasks0 /\ writes = <<>> /\ assignees = [n \in TaskIDs |-> {}]

C1_Witness ==
    /\ pc = "rejected"
    /\ Cardinality(bt.IDs) >= 2
    /\ err.type = "ErrBulkTasksMustBeInSameList"
    /\ err.ShouldBeID # err.IsID

\* C2 (as claimed): the ID of the payload is ignored: Update writes only to the rows
\* of the tasks resolved from task_ids, all of them in the list CanUpdate checked.
C2_PayloadIDIgnored ==
    /\ \A k \in 1..Len(writes) :
          writes[k].id \in bt.IDs /\ tasks0[writes[k].id].ListID \in asked
    /\ \A n \in TaskIDs \ bt.IDs : tasks[n] = tasks0[n]

\* C3: CanUpdate decides once, against the one list of all targets: it returns true
\* exactly when the same-list check passes and the principal may write that list,
\* and false with the check's error, the rights not consulted, when the check fails.
C3_AuthorizedOnceOnSharedList ==
    CanUpdateReturned =>
        /\ ok = (SameList /\ FirstListID \in WritableLists)
        /\ SameList => asked = {FirstListID}
        /\ (SameList /\ pc \in {"forbidden", "authorized"}) => err = NoError
        /\ ~SameList => ~ok /\ err # NoError /\ asked = {}
                        /\ err = checkIfTasksAreOnTheSameList(bt.Tasks)

C3_Witness ==
    /\ pc = "authorized"
    /\ ok
    /\ Cardinality(bt.IDs) >= 2
    /\ bt.Task.ListID # 0
    /\ bt.Task.ListID \notin WritableLists
    /\ asked = {FirstListID}

\* C4 (as claimed): a payload with Done=false applied to a target that is done and
\* has no repeat interval persists that target with Done=false.
C4_ExplicitFalsePersisted ==
    \A k \in 1..Processed :
        (tasks0[NthTarget(k)].Done /\ tasks0[NthTarget(k)].RepeatAfter = 0
            /\ ~submitted.Done) => ~tasks[NthTarget(k)].Done

\* C5 (as claimed): every target with repeat_after > 0 that receives a payload with
\* Done=true is persisted undone and with its dates advanced by one interval.
C5_RepeatingTargetAdvanced ==
    \A k \in 1..Processed :
        (tasks0[NthTarget(k)].RepeatAfter > 0 /\ submitted.Done) =>
            /\ ~tasks[NthTarget(k)].Done
            /\ tasks[NthTarget(k)].DueDate =
                  tasks0[NthTarget(k)].DueDate + tasks0[NthTarget(k)].RepeatAfter

\* C6: Update persists only the listed columns: the other stored fields of every
\* task, its ListID in particular, are as they were, also when the payload carries
\* a ListID and the merge changed the in-memory copy.
C6_OnlyListedColumnsPersisted ==
    \A n \in TaskIDs : tasks[n].ID = tasks0[n].ID /\ tasks[n].ListID = tasks0[n].ListID

C6_Witness ==
    \E k \in 1..Len(writes) :
        /\ writes[k].id = NthTarget(k)
        /\ submitted.ListID # 0
        /\ writes[k].row.ListID # tasks0[writes[k].id].ListID
        /\ tasks[writes[k].id].Title # tasks0[writes[k].id].Title

\* C7: Update handles the targets in the order of bt.Tasks; when the k-th fails it
\* returns that error, no later target is written or touched, and the updates of
\* the targets before the k-th stay in the table.
C7_FirstErrorAbortsWithoutRollback ==
    pc \in {"authorized", "failed", "done"} =>
        /\ Len(writes) = Processed
        /\ \A k \in 1..Processed : writes[k].row = bt.Tasks[k]
        /\ \A k \in (idx + 1)..Len(bt.Tasks) : bt.Tasks[k] = LoadTask(tasks0[NthTarget(k)])
        /\ \A n \in TaskIDs :
              IF LastWrite(n) = 0 THEN tasks[n] = tasks0[n]
              ELSE LET w == writes[LastWrite(n)].row
                   IN  /\ tasks[n].Title = w.Title
                       /\ tasks[n].Done = w.Done
                       /\ tasks[n].DueDate = w.DueDate
                       /\ tasks[n].RepeatAfter = w.RepeatAfter
        /\ pc = "failed" => err \in {ErrAssignees, ErrUpdate} /\ idx <= Len(bt.Tasks)
        /\ pc = "done" => err = NoError /\ Processed = Len(bt.Tasks)

C7_Witness ==
    /\ pc = "failed"
    /\ err = ErrUpdate
    /\ idx = 2
    /\ tasks # tasks0
    /\ tasks[NthTarget(1)] # tasks0[NthTarget(1)]
    /\ tasks[NthTarget(2)] = tasks0[NthTarget(2)]

\* C16 (as claimed): the payload applied to each target is the payload as
\* submitted, whatever targets came before it: no iteration changes the payload the
\* next target receives, and with a payload of Done=true every target without a
\* repeat interval is persisted with Done=true also when a repeating target was
\* processed earlier in the batch.
C16_PayloadAsSubmitted ==
    /\ InLoop => bt.Task = submitted
    /\ \A k \in 1..Processed :
          (/\ submitted.Done
           /\ tasks0[NthTarget(k)].RepeatAfter = 0
           /\ \E j \in 1..(k - 1) : tasks0[NthTarget(j)].RepeatAfter > 0)
              => tasks[NthTarget(k)].Done

(***************************************************************************)
(* ReadAllWeb                                                              *)
(***************************************************************************)
\* No bulk request is in flight while a ReadAllWeb request is handled.
InitWeb ==
    /\ tasks = [n \in TaskIDs |-> [ID |-> n, ListID |-> 1, Title |-> "old", Done |-> FALSE,
                                    DueDate |-> 10 * n, RepeatAfter |-> 0]]
    /\ assignees = [n \in TaskIDs |-> {}]
    /\ bt = [IDs |-> {}, Tasks |-> <<>>,
             Task |-> [ID |-> 0, ListID |-> 0, Title |-> "", Done |-> FALSE,
                       DueDate |-> 0, RepeatAfter |-> 0, Assignees |-> {}]]
    /\ submitted = bt.Task
    /\ pc = "idle"
    /\ idx = 1
    /\ ok = FALSE
    /\ err = NoError
    /\ asked = {}
    /\ tasks0 = tasks
    /\ writes = <<>>
    /\ \E page \in ParamStrings, perPage \in ParamStrings : web = WebRequest(page, perPage)
    /\ team = TeamIdle(EmptyDB)

\* The answer to a request that got as far as the named steps.
Respond(authenticated, bound, status, message) ==
    [web EXCEPT !.pc = "done", !.authenticated = authenticated, !.bound = bound,
                !.status = status, !.message = message]

ReadAllWeb ==
    /\ web.pc = "request"
    /\ LET pg == Pagination(web.page)
           pp == ItemsPerPage(web.per_page)
       IN  \/ web' = Respond(FALSE, FALSE, 500, "Could not determine the current user.")
           \/ web' = Respond(TRUE, FALSE, 400, "No or invalid model provided.")
           \/ /\ pg.message # ""
              /\ web' = Respond(TRUE, TRUE, 400, pg.message)
           \/ /\ pg.message = ""
              /\ pp.message # ""
              /\ web' = [Respond(TRUE, TRUE, 400, pp.message)
                            EXCEPT !.pageNumber = pg.pageNumber]
           \* ReadAll returns an error, answered through HandleHTTPError.
           \/ /\ pg.message = ""
              /\ pp.message = ""
              /\ \E status \in {403, 500} :
                    web' = [Respond(TRUE, TRUE, status, "ReadAll failed.")
                               EXCEPT !.pageNumber = pg.pageNumber,
                                      !.perPageNumber = pp.perPageNumber,
                                      !.readAllCalled = TRUE]
           \* ReadAll returns results.
           \/ /\ pg.message = ""
              /\ pp.message = ""
              /\ \E resultCount \in 0..MaxResults, numberOfItems \in 0..MaxTotal :
                    web' = [Respond(TRUE, TRUE, 200, "")
                               EXCEPT !.pageNumber = pg.pageNumber,
                                      !.perPageNumber = pp.perPageNumber,
                                      !.readAllCalled = TRUE,
                                      !.resultCount = resultCount,
                                      !.numberOfItems = numberOfItems,
                                      !.totalPagesHeader =
                                          FormatInt(NumberOfPages(numberOfItems,
                                                                  pp.perPageNumber,
                                                                  pg.pageNumber,
                                                                  resultCount)),
                                      !.resultCountHeader = FormatInt(resultCount)]
    /\ UNCHANGED <<bulkVars, team>>

NextWeb == ReadAllWeb

SpecWeb == InitWeb /\ [][NextWeb]_vars

(***************************************************************************)
(* Properties of ReadAllWeb                                                *)
(***************************************************************************)
\* The numbers the request's page and per_page parameters stand for.
RequestedPage == Atoi(IF web.page = <<>> THEN <<"1">> ELSE web.page)

RequestedPerPage == IF web.per_page = <<>> THEN [ok |-> TRUE, value |-> 0] ELSE Atoi(web.per_page)

\* The request got past authentication and binding, and its page is a number.
PageExamined == web.pc = "done" /\ web.authenticated /\ web.bound /\ RequestedPage.ok

PerPageAcceptable == RequestedPerPage.ok /\ RequestedPerPage.value >= 0

\* C8 (as claimed): every request with a page below 1, page 0 included, is refused
\* with a 400 error and ReadAll is not invoked.
C8_PageBelowOneRefused ==
    (PageExamined /\ RequestedPage.value < 1) => (web.status = 400 /\ ~web.readAllCalled)

\* C8 (amended): every request with a negative page is refused with a 400 error and
\* ReadAll is not invoked; page 0 is not refused: with an acceptable per_page,
\* ReadAll is invoked with page 0.
C8_NegativePageRefused ==
    PageExamined =>
        /\ RequestedPage.value < 0 =>
              /\ web.status = 400
              /\ web.message = "Page number cannot be negative."
              /\ ~web.readAllCalled
        /\ (RequestedPage.value = 0 /\ PerPageAcceptable) =>
              web.readAllCalled /\ web.pageNumber = 0

C8_Witness ==
    /\ PageExamined
    /\ web.page = <<"-", "1">>
    /\ web.status = 400
    /\ ~web.readAllCalled

\* C9 (as claimed): a negative page number switches pagination off: the request is
\* served with all results and its total-pages metadata is forced to 1.
C9_NegativePageGivesOnePage ==
    (PageExamined /\ RequestedPage.value < 0 /\ PerPageAcceptable) =>
        /\ web.readAllCalled
        /\ (web.status = 200 /\ web.resultCount > 0) => web.totalPagesHeader = <<"1">>

\* C10: the per-page value passed to ReadAll is between 1 and the configured
\* maximum: the maximum when per_page is omitted or 0 or above the maximum; a
\* negative per_page is refused with a 400 error and ReadAll is not invoked.
C10_PerPageWithinMaximum ==
    web.pc = "done" =>
        /\ web.readAllCalled =>
              /\ web.perPageNumber \in 1..MaxItemsPerPage
              /\ RequestedPerPage.ok
              /\ RequestedPerPage.value = 0 => web.perPageNumber = MaxItemsPerPage
              /\ RequestedPerPage.value > MaxItemsPerPage =>
                    web.perPageNumber = MaxItemsPerPage
              /\ RequestedPerPage.value \in 1..MaxItemsPerPage =>
                    web.perPageNumber = RequestedPerPage.value
        /\ (RequestedPerPage.ok /\ RequestedPerPage.value < 0) =>
              /\ ~web.readAllCalled
              /\ web.authenticated => web.status = 400

C10_Witness ==
    /\ web.pc = "done"
    /\ web.readAllCalled
    /\ RequestedPerPage.value > MaxItemsPerPage
    /\ web.perPageNumber = MaxItemsPerPage

\* The pages needed for a total of items: the least number of pages of the given
\* size that hold them all.
PagesNeeded(total, perPage) ==
    CHOOSE c \in 0..total : c * perPage >= total /\ \A b \in 0..(c - 1) : b * perPage < total

\* C11: for every successful call the total-pages metadata is
\* ceil(totalCount / effectivePerPage) when the result set is not empty and 0 when
\* it is empty, whatever the total count; the result-count metadata is the number
\* of items returned.
C11_TotalPagesAndResultCount ==
    (web.pc = "done" /\ web.status = 200) =>
        /\ web.resultCount > 0 =>
              web.totalPagesHeader = FormatInt(PagesNeeded(web.numberOfItems, web.perPageNumber))
        /\ web.resultCount = 0 => web.totalPagesHeader = <<"0">>
        /\ web.resultCountHeader = FormatInt(web.resultCount)

\* A last page that is not full: more items than one page holds, not a multiple.
C11_Witness ==
    /\ web.pc = "done"
    /\ web.status = 200
    /\ web.resultCount > 0
    /\ web.numberOfItems > web.perPageNumber
    /\ web.numberOfItems % web.perPageNumber # 0
    /\ web.totalPagesHeader = <<"2">>

(***************************************************************************)
(* Team requests                                                           *)
(***************************************************************************)
\* No bulk update and no ReadAllWeb request is in flight while team requests are
\* handled; the team tables start empty.
InitTeam ==
    /\ tasks = [n \in TaskIDs |-> [ID |-> n, ListID |-> 1, Title |-> "old", Done |-> FALSE,
                                    DueDate |-> 10 * n, RepeatAfter |-> 0]]
    /\ assignees = [n \in TaskIDs |-> {}]
    /\ bt = [IDs |-> {}, Tasks |-> <<>>,
             Task |-> [ID |-> 0, ListID |-> 0, Title |-> "", Done |-> FALSE,
                       DueDate |-> 0, RepeatAfter |-> 0, Assignees |-> {}]]
    /\ submitted = bt.Task
    /\ pc = "idle"
    /\ idx = 1
    /\ ok = FALSE
    /\ err = NoError
    /\ asked = {}
    /\ tasks0 = tasks
    /\ writes = <<>>
    /\ web = WebIdle
    /\ team = TeamIdle(EmptyDB)

\* A request can start when no other one is being handled.
TeamReady == team.pc = "idle"

\* The answer to a request: its error, the session as the operation left it, and
\* the tables after the session ended.
TeamAnswer(op, a, id, e, session) ==
    [TeamIdle(EndSession(team.db, session, e))
        EXCEPT !.pc = "answered", !.op = op, !.a = a, !.id = id, !.err = e,
               !.session = session, !.db0 = team.db]

\* Team.Create
TeamCreate ==
    /\ TeamReady
    /\ \E a \in Principals, name \in TeamNames :
          LET auth == GetFromAuth(a)
              answer(id, e, session) ==
                  [TeamAnswer("create", a, id, e, session) EXCEPT !.name = name]
          IN  \/ /\ auth.err # NoError
                 /\ team' = answer(0, auth.err, team.db)
              \/ /\ auth.err = NoError
                 /\ name = <<>>
                 /\ team' = answer(0, ErrTeamNameCannotBeEmpty, team.db)
              \* The insert of the team row fails.
              \/ /\ auth.err = NoError
                 /\ name # <<>>
                 /\ team' = answer(0, ErrDatabase, team.db)
              \* The team row gets an id no other team row has.
              \/ /\ auth.err = NoError
                 /\ name # <<>>
                 /\ \E id \in TeamIDs \ {t.ID : t \in team.db.teams} :
                       LET inserted == InsertTeam(team.db, id, name, auth.doer)
                           tm == NewTeamMember(id, auth.doer)
                       IN  \/ team' = answer(id, ErrDatabase, inserted)
                           \/ team' = answer(id, NoError, TeamMemberCreate(inserted, tm))
    /\ UNCHANGED <<bulkVars, web>>

\* TeamMember.Create: a user who is not a member of an existing team is added to it.
TeamMemberAdd ==
    /\ TeamReady
    /\ \E t \in team.db.teams, u \in TeamUsers :
          /\ ~\E m \in team.db.members : m.TeamID = t.ID /\ m.UserID = u
          /\ team' = TeamAnswer("addMember", NoAuth, t.ID, NoError,
                                TeamMemberCreate(team.db,
                                    [TeamID |-> t.ID, UserID |-> u, Admin |-> FALSE]))
    /\ UNCHANGED <<bulkVars, web>>

\* TeamNamespace.Create: an existing team is given access to a namespace.
TeamNamespaceCreate ==
    /\ TeamReady
    /\ \E t \in team.db.teams, n \in Namespaces :
          /\ [TeamID |-> t.ID, NamespaceID |-> n] \notin team.db.namespaces
          /\ team' = TeamAnswer("shareNamespace", NoAuth, t.ID, NoError,
                             [team.db EXCEPT !.namespaces =
                                 @ \cup {[TeamID |-> t.ID, NamespaceID |-> n]}])
    /\ UNCHANGED <<bulkVars, web>>

\* TeamList.Create: an existing team is given access to a list.
TeamListCreate ==
    /\ TeamReady
    /\ \E t \in team.db.teams, l \in SharedLists :
          /\ [TeamID |-> t.ID, ListID |-> l] \notin team.db.lists
          /\ team' = TeamAnswer("shareList", NoAuth, t.ID, NoError,
                             [team.db EXCEPT !.lists = @ \cup {[TeamID |-> t.ID, ListID |-> l]}])
    /\ UNCHANGED <<bulkVars, web>>

\* Team.Delete is called for an existing team, on a new session.
TeamDeleteBegin ==
    /\ TeamReady
    /\ \E t \in team.db.teams :
          team' = [TeamIdle(team.db) EXCEPT !.pc = "deleting", !.op = "delete",
                                            !.id = t.ID, !.step = 1]
    /\ UNCHANGED <<bulkVars, web>>

\* Faulty variant: the error of a failed statement is not returned.
TeamDeleteFail_swallowed ==
    /\ team.pc = "deleting"
    /\ team' = [team EXCEPT !.pc = "answered", !.failed = TRUE, !.err = NoError,
                            !.db = EndSession(team.db, team.session, NoError)]
    /\ UNCHANGED <<bulkVars, web>>

\* Team.Delete: the next delete statement fails and its error is returned.
TeamDeleteFail ==
    /\ team.pc = "deleting"
    /\ team' = [team EXCEPT !.pc = "answered", !.failed = TRUE, !.err = ErrDatabase,
                            !.db = EndSession(team.db, team.session, ErrDatabase)]
    /\ UNCHANGED <<bulkVars, web>>

\* Team.Delete: the next delete statement succeeds; after the last one Delete
\* returns nil.
TeamDeleteStep ==
    /\ team.pc = "deleting"
    /\ LET session == DeleteStatement(team.session, team.step, team.id)
       IN  team' = IF team.step < DeleteSteps
                   THEN [team EXCEPT !.session = session, !.step = @ + 1]
                   ELSE [team EXCEPT !.pc = "answered", !.session = session,
                                     !.db = EndSession(team.db, session, NoError)]
    /\ UNCHANGED <<bulkVars, web>>

\* Team.ReadAll
TeamReadAll ==
    /\ TeamReady
    /\ \E a \in Principals, search \in Searches, page \in Pages, perPage \in PerPages :
          LET l == getLimitFromPageIndex(page, perPage)
              found == TeamsOf(team.db, a.id, search)
              all == Limit(TeamRows(found), l.limit, l.start)
              answer(e, result, total) ==
                  [TeamAnswer("readAll", a, 0, e, team.db)
                      EXCEPT !.search = search, !.result = result,
                             !.resultCount = Len(result), !.numberOfTotalItems = total]
          IN  \/ /\ a.kind = "linkshare"
                 /\ team' = answer(ErrGenericForbidden, <<>>, 0)
              \* The query or addMoreInfoToTeams fails.
              \/ /\ a.kind # "linkshare"
                 /\ team' = answer(ErrDatabase, <<>>, 0)
              \* The count fails: the teams found are returned with the error.
              \/ /\ a.kind # "linkshare"
                 /\ team' = answer(ErrDatabase, all, 0)
              \/ /\ a.kind # "linkshare"
                 /\ team' = answer(NoError, all, Cardinality(found))
    /\ UNCHANGED <<bulkVars, web>>

\* The answer was sent: the next request can start.
TeamAnswered ==
    /\ team.pc = "answered"
    /\ team' = TeamIdle(team.db)
    /\ UNCHANGED <<bulkVars, web>>

NextTeam ==
    \/ TeamCreate
    \/ TeamMemberAdd
    \/ TeamNamespaceCreate
    \/ TeamListCreate
    \/ TeamDeleteBegin
    \/ TeamDeleteFail
    \/ TeamDeleteStep
    \/ TeamReadAll
    \/ TeamAnswered

SpecTeam == InitTeam /\ [][NextTeam]_vars

(***************************************************************************)
(* Properties of the team requests                                         *)
(***************************************************************************)
TeamAnsweredOp(op) == team.pc = "answered" /\ team.op = op

\* The rows of the tables d that belong to or refer to team id.
RowsOfTeam(d, id) ==
    [teams |-> {t \in d.teams : t.ID = id},
     members |-> {m \in d.members : m.TeamID = id},
     namespaces |-> {r \in d.namespaces : r.TeamID = id},
     lists |-> {r \in d.lists : r.TeamID = id}]

C13_DeleteLeavesNoReference ==
    (TeamAnsweredOp("delete") /\ ~team.failed /\ team.err = NoError) =>
        /\ RowsOfTeam(team.db, team.id) = EmptyDB
        /\ \A id \in TeamIDs \ {team.id} : RowsOfTeam(team.db, id) = RowsOfTeam(team.db0, id)

\* The deleted team had two members and a share of every kind, and another team
\* is left.
C13_Witness ==
    /\ TeamAnsweredOp("delete")
    /\ ~team.failed
    /\ team.err = NoError
    /\ Cardinality(RowsOfTeam(team.db0, team.id).members) = 2
    /\ RowsOfTeam(team.db0, team.id).namespaces # {}
    /\ RowsOfTeam(team.db0, team.id).lists # {}
    /\ team.db.teams # {}

\* C14: after a successful Team.Create by a user with a non-empty name the team
\* has exactly one member, that user, as admin, and that user is its owner; with
\* an empty name Create fails with ErrTeamNameCannotBeEmpty and inserts neither a
\* team row nor a member row.
C14_CreatorIsOnlyAdminMember ==
    TeamAnsweredOp("create") =>
        /\ team.err = NoError =>
              /\ team.a.kind = "user"
              /\ team.name # <<>>
              /\ RowsOfTeam(team.db, team.id).teams =
                    {[ID |-> team.id, Name |-> team.name, CreatedByID |-> team.a.id]}
              /\ RowsOfTeam(team.db, team.id).members =
                    {[TeamID |-> team.id, UserID |-> team.a.id, Admin |-> TRUE]}
        /\ (team.a.kind = "user" /\ team.name = <<>>) =>
              /\ team.err = ErrTeamNameCannotBeEmpty
              /\ team.session = team.db0
              /\ team.db = team.db0

\* A team is created while another team with two members exists.
C14_Witness ==
    /\ TeamAnsweredOp("create")
    /\ team.err = NoError
    /\ team.db # team.db0
    /\ \E id \in TeamIDs \ {team.id} : Cardinality(RowsOfTeam(team.db0, id).members) = 2

\* C15: Team.ReadAll returns only teams the requesting principal is a member of;
\* for a link share it fails with ErrGenericForbidden and returns no team.
C15_ReadAllOnlyOwnTeams ==
    TeamAnsweredOp("readAll") =>
        /\ \A i \in 1..Len(team.result) :
              /\ team.result[i] \in team.db.teams
              /\ \E m \in team.db.members :
                    m.TeamID = team.result[i].ID /\ m.UserID = team.a.id
        /\ team.a.kind = "linkshare" =>
              /\ team.err = ErrGenericForbidden
              /\ team.result = <<>>
              /\ team.resultCount = 0
              /\ team.numberOfTotalItems = 0

\* A user reads the teams while a team exists that the user is no member of: it
\* is not among the teams returned.
C15_Witness ==
    /\ TeamAnsweredOp("readAll")
    /\ team.err = NoError
    /\ team.a.kind = "user"
    /\ Len(team.result) = 1
    /\ \E t \in team.db.teams :
          /\ Like(t.Name, team.search)
          /\ \A i \in 1..Len(team.result) : team.result[i] # t
          /\ \A m \in team.db.members : m.TeamID = t.ID => m.UserID # team.a.id

====
